---------------------------- MODULE Spec2Model ----------------------------
(***************************************************************************)
(* Model of the PDF-grounded chatbot API (app.py, utils.py, exception.py). *)
(*                                                                         *)
(* State: the module-level slot _pdf_text, the process environment entry   *)
(* GROQ_API_KEY, and one handler frame per client connection holding the   *)
(* locals of the request that client has in flight.  Both endpoints are    *)
(* `async def` coroutines whose bodies contain no `await`, so the event    *)
(* loop runs a handler from its first line to its response without         *)
(* switching to another one; `running` is the coroutine that owns the      *)
(* loop.                                                                   *)
(*                                                                         *)
(* Strings are run-length encoded: a string is a sequence of runs          *)
(* <<ch, n>>, n >= 1, meaning n copies of ch.  A literal of the source     *)
(* that is only ever concatenated is one run <<literal, 1>>.               *)
(*                                                                         *)
(* The body of utils.get_response_schema is not among the sources; it is   *)
(* the envelope of the three arguments the handlers pass to it (payload,   *)
(* message, status code).                                                  *)
(***************************************************************************)
EXTENDS Integers, Sequences, FiniteSets, TLC

VARIABLES _pdf_text, GROQ_API_KEY, running, frame, lastOK

vars == <<_pdf_text, GROQ_API_KEY, running, frame, lastOK>>

(***************************************************************************)
(* Bounds and program constants                                            *)
(***************************************************************************)
NumClients == 2
MaxPages == 2

CHARS_PER_TOKEN == 4
MAX_CONTEXT_TOKENS == 8000

Clients == 1..NumClients
NoClient == 0

(***************************************************************************)
(* Strings                                                                 *)
(***************************************************************************)
\* Python's None, kept apart from every string (its run has count 0).
None == << <<"None", 0>> >>

EmptyStr == << >>

\* n copies of the character ch
Rep(ch, n) == << <<ch, n>> >>

\* a literal of the source, used only in concatenations and comparisons
Lit(s) == << <<s, 1>> >>

\* the characters str.strip() removes
Whitespace == {" ", "\n", "\t"}

\* len(s)
RECURSIVE StrLen(_)
StrLen(s) == IF s = << >> THEN 0 ELSE Head(s)[2] + StrLen(Tail(s))

RECURSIVE LStrip(_)
LStrip(s) ==
    IF s = << >> THEN << >>
    ELSE IF Head(s)[1] \in Whitespace THEN LStrip(Tail(s))
    ELSE s

RECURSIVE RStrip(_)
RStrip(s) ==
    IF s = << >> THEN << >>
    ELSE IF s[Len(s)][1] \in Whitespace THEN RStrip(SubSeq(s, 1, Len(s) - 1))
    ELSE s

\* s.strip()
Strip(s) == RStrip(LStrip(s))

\* sep.join(texts)
RECURSIVE Join(_, _)
Join(sep, texts) ==
    IF texts = << >> THEN << >>
    ELSE IF Len(texts) = 1 THEN texts[1]
    ELSE texts[1] \o sep \o Join(sep, Tail(texts))

\* Python truthiness of an Optional[str]: `not x`
Falsy(x) == x = None \/ x = EmptyStr

\* x or ""
OrEmpty(x) == IF Falsy(x) THEN EmptyStr ELSE x

Max(a, b) == IF a >= b THEN a ELSE b

\* File names are sequences of characters, so that lower() and endswith()
\* are computed.
LowerChar(ch) ==
    CASE ch = "A" -> "a"
      [] ch = "P" -> "p"
      [] ch = "D" -> "d"
      [] ch = "F" -> "f"
      [] ch = "T" -> "t"
      [] ch = "X" -> "x"
      [] OTHER -> ch

\* name.lower()
Lower(name) == [i \in 1..Len(name) |-> LowerChar(name[i])]

\* name.endswith(suffix)
EndsWith(name, suffix) ==
    /\ Len(name) >= Len(suffix)
    /\ SubSeq(name, Len(name) - Len(suffix) + 1, Len(name)) = suffix

DotPdf == <<".", "p", "d", "f">>


(***************************************************************************)
(* Messages (global_constants.py) and constants of the handlers            *)
(***************************************************************************)
ONLY_PDF_SUPPORTED == "Only PDF files are supported."
PDF_PROCESSING_FAILED == "Could not process this PDF. Please try another file."
PDF_TOO_LARGE == "PDF too large, please shorten or split."
PDF_NOT_UPLOADED == "Please upload a PDF first."
QUESTION_REQUIRED == "Question must be provided."
SERVER_MISCONFIGURED == "Server configuration error: missing GROQ_API_KEY."
\* (the source writes the apostrophe as U+2019; strings here are ASCII)
ANSWER_GENERATION_FAILED == "We're having trouble generating an answer. Please try again."
PDF_PROCESSED == "PDF processed successfully."
ANSWER_GENERATED == "Answer generated successfully."

HTTP_200_OK == 200
HTTP_400_BAD_REQUEST == 400
HTTP_409_CONFLICT == 409
HTTP_413_REQUEST_ENTITY_TOO_LARGE == 413
HTTP_422_UNPROCESSABLE_ENTITY == 422
HTTP_500_INTERNAL_SERVER_ERROR == 500

APPLICATION_PDF == "application/pdf"

FALLBACK_ANSWER == Lit("The document does not contain that information.")

(***************************************************************************)
(* Inputs                                                                  *)
(***************************************************************************)
\* what page.extract_text() returns for one page
PageTexts ==
    { None,
      Rep(" ", 1),
      Rep("a", 1),
      Rep("a", 2),
      Rep("a", CHARS_PER_TOKEN * MAX_CONTEXT_TOKENS) }

PageLists == UNION { [1..n -> PageTexts] : n \in 0..MaxPages }

\* the uploaded stream: PdfReader either raises on it or yields its pages
Streams ==
    { [raises |-> TRUE, pages |-> << >>] } \cup
    { [raises |-> FALSE, pages |-> ps] : ps \in PageLists }

Filenames ==
    { <<"a", ".", "p", "d", "f">>,
      <<"A", ".", "P", "D", "F">>,
      <<"a", ".", "t", "x", "t">>,
      <<"p", "d", "f">> }

ContentTypes == { APPLICATION_PDF, "text/plain", "Application/PDF" }

\* a one-page document
PlainStream == [raises |-> FALSE, pages |-> << Rep("a", 1) >>]

\* The uploads: every name and content type with a plain document, and every
\* stream under a PDF name and content type (the type check reads only the
\* name and the content type, the extractor only the stream).
Files ==
    [filename : Filenames, content_type : ContentTypes, file : {PlainStream}] \cup
    [filename : {<<"a", ".", "p", "d", "f">>}, content_type : {APPLICATION_PDF},
     file : Streams]

NoFile == [filename |-> << >>, content_type |-> "", file |-> [raises |-> TRUE, pages |-> << >>]]

Questions ==
    { EmptyStr,
      Rep(" ", 2),
      Rep("q", 1),
      Rep(" ", 1) \o Rep("q", 1) \o Rep("\n", 1) }

\* what client.chat.completions.create(...) does: raise, or return a
\* completion whose message content is None or a string
Completions ==
    { [raises |-> TRUE, content |-> None] } \cup
    { [raises |-> FALSE, content |-> t] :
        t \in { None, EmptyStr, Rep(" ", 1), Rep("x", 1),
                Rep("\n", 1) \o Rep("x", 1) \o Rep(" ", 1) } }

NoCompletion == [raises |-> FALSE, content |-> None]

\* os.getenv("GROQ_API_KEY"): unset, set to the empty string, or set
KeyValues == { None, EmptyStr, Lit("gsk_key") }

(***************************************************************************)
(* Pure functions of the source                                            *)
(***************************************************************************)
\* a variant that rounds the quotient up
EstimateTokensCeil(text) ==
    Max(1, (StrLen(text) + CHARS_PER_TOKEN - 1) \div CHARS_PER_TOKEN)

\* utils._estimate_tokens
_estimate_tokens(text) == Max(1, StrLen(text) \div CHARS_PER_TOKEN)

\* a variant that returns the joined pages without .strip()
ExtractTextNoStrip(upload) ==
    IF upload.file.raises
    THEN [raised |-> TRUE, text |-> EmptyStr]
    ELSE LET texts == [i \in 1..Len(upload.file.pages) |-> OrEmpty(upload.file.pages[i])]
         IN  [raised |-> FALSE, text |-> Join(Rep("\n", 2), texts)]

\* utils._extract_text_from_pdf: [raised, text]; raised means the
\* HTTPException(422) of its except clause
_extract_text_from_pdf(upload) ==
    IF upload.file.raises
    THEN [raised |-> TRUE, text |-> EmptyStr]
    ELSE LET texts == [i \in 1..Len(upload.file.pages) |-> OrEmpty(upload.file.pages[i])]
         IN  [raised |-> FALSE, text |-> Strip(Join(Rep("\n", 2), texts))]

\* a variant that rejects when either signal is missing
NotPdfEither(file) ==
    \/ ~ EndsWith(Lower(file.filename), DotPdf)
    \/ file.content_type # APPLICATION_PDF

\* the condition of app.py line 40 (the UploadFile object itself is truthy)
NotPdf(file) ==
    /\ ~ EndsWith(Lower(file.filename), DotPdf)
    /\ file.content_type # APPLICATION_PDF

\* a variant without the .strip() test
QuestionMissingNoStrip(question) == Falsy(question)

\* the condition of app.py line 57
QuestionMissing(question) == Falsy(question) \/ Falsy(Strip(question))

\* a variant that tests only for the empty string
NoDocumentEmptyOnly(document) == document = EmptyStr

\* the condition of app.py line 60
NoDocument(document) == Falsy(document)

\* a variant that tests only for an unset variable
KeyMissingUnsetOnly(api_key) == api_key = None

\* the condition of app.py line 80
KeyMissing(api_key) == Falsy(api_key)

\* app.py lines 71-76
BuildPrompt(document, question) ==
    Lit("[DOCUMENT]\n") \o document \o Rep("\n", 2) \o
    Lit("[QUESTION]\n") \o Strip(question) \o Rep("\n", 2) \o
    Lit("[INSTRUCTIONS]\n- Only answer using DOCUMENT.\n") \o
    Lit("- If unsure or not present, say it is not in the document.")

\* a variant without the fallback sentence
ShapeAnswerNoFallback(content) == Strip(OrEmpty(content))

\* app.py lines 100-102
ShapeAnswer(content) ==
    LET answer == Strip(OrEmpty(content))
    IN  IF Falsy(answer) THEN FALLBACK_ANSWER ELSE answer

\* utils.get_response_schema(data, message, status_code): the uniform envelope
\* carrying the payload, the message and the status code
get_response_schema(data, message, status_code) ==
    [status |-> status_code, message |-> message, data |-> data]

\* exception.http_exception_handler: the response for a raised
\* HTTPException(status_code, detail); the payload is {"detail": [detail]}
http_exception_handler(status_code, detail) ==
    get_response_schema(Lit(detail), "Error occurred", status_code)

NoResponse == [status |-> 0, message |-> "", data |-> None]

(***************************************************************************)
(* Handler frames                                                          *)
(***************************************************************************)
IdleFrame ==
    [ pc |-> "idle", kind |-> "none",
      file |-> NoFile, question |-> None,
      text |-> None, prompt |-> None, api_key |-> None,
      extracted |-> FALSE, called |-> FALSE, completion |-> NoCompletion,
      start |-> None, resp |-> NoResponse ]

\* a variant in which a handler can be suspended anywhere (handlers run on
\* preemptive threads, or await between their statements)
RunnablePreemptive(c) == c \in Clients

\* The event loop gives the thread to coroutine c: no coroutine is running, or
\* c itself is (a handler body has no await, so it is never suspended).
Runnable(c) == running \in {NoClient, c}

At(c, loc) == frame[c].pc = loc /\ Runnable(c)

\* raise HTTPException(status_code, detail)
Raise(c, status_code, detail) ==
    frame' = [frame EXCEPT ![c].pc = "respond",
                           ![c].resp = http_exception_handler(status_code, detail)]

Init ==
    /\ _pdf_text = None
    /\ GROQ_API_KEY \in KeyValues
    /\ running = NoClient
    /\ frame = [c \in Clients |-> IdleFrame]
    /\ lastOK = None

(***************************************************************************)
(* POST /upload-pdf                                                        *)
(***************************************************************************)
UploadReceive(c) ==
    /\ At(c, "idle")
    /\ \E f \in Files :
         frame' = [frame EXCEPT ![c] = [IdleFrame EXCEPT !.pc = "up_type",
                                                         !.kind = "upload",
                                                         !.file = f,
                                                         !.start = _pdf_text]]
    /\ running' = c
    /\ UNCHANGED <<_pdf_text, GROQ_API_KEY, lastOK>>

\* app.py lines 40-41
UploadCheckType(c) ==
    /\ At(c, "up_type")
    /\ IF NotPdf(frame[c].file)
       THEN Raise(c, HTTP_400_BAD_REQUEST, ONLY_PDF_SUPPORTED)
       ELSE frame' = [frame EXCEPT ![c].pc = "up_extract"]
    /\ UNCHANGED <<_pdf_text, GROQ_API_KEY, running, lastOK>>

\* a variant that assigns the extractor's result to the slot before the gates
UploadExtractIntoSlot(c) ==
    /\ At(c, "up_extract")
    /\ LET r == _extract_text_from_pdf(frame[c].file)
       IN  /\ _pdf_text' = IF r.raised THEN _pdf_text ELSE r.text
           /\ IF r.raised \/ Falsy(r.text)
              THEN frame' = [frame EXCEPT
                       ![c].pc = "respond",
                       ![c].extracted = TRUE,
                       ![c].text = r.text,
                       ![c].resp = http_exception_handler(HTTP_422_UNPROCESSABLE_ENTITY,
                                                          PDF_PROCESSING_FAILED)]
              ELSE frame' = [frame EXCEPT
                       ![c].pc = "up_size",
                       ![c].extracted = TRUE,
                       ![c].text = r.text]
    /\ UNCHANGED <<GROQ_API_KEY, running, lastOK>>

\* app.py lines 43-45
UploadExtract(c) ==
    /\ At(c, "up_extract")
    /\ LET r == _extract_text_from_pdf(frame[c].file)
       IN  IF r.raised
           THEN frame' = [frame EXCEPT
                    ![c].pc = "respond",
                    ![c].extracted = TRUE,
                    ![c].resp = http_exception_handler(HTTP_422_UNPROCESSABLE_ENTITY,
                                                       PDF_PROCESSING_FAILED)]
           ELSE IF Falsy(r.text)
           THEN frame' = [frame EXCEPT
                    ![c].pc = "respond",
                    ![c].extracted = TRUE,
                    ![c].text = r.text,
                    ![c].resp = http_exception_handler(HTTP_422_UNPROCESSABLE_ENTITY,
                                                       PDF_PROCESSING_FAILED)]
           ELSE frame' = [frame EXCEPT
                    ![c].pc = "up_size",
                    ![c].extracted = TRUE,
                    ![c].text = r.text]
    /\ UNCHANGED <<_pdf_text, GROQ_API_KEY, running, lastOK>>

\* app.py lines 47-48
UploadCheckSize(c) ==
    /\ At(c, "up_size")
    /\ IF _estimate_tokens(frame[c].text) > MAX_CONTEXT_TOKENS
       THEN Raise(c, HTTP_413_REQUEST_ENTITY_TOO_LARGE, PDF_TOO_LARGE)
       ELSE frame' = [frame EXCEPT ![c].pc = "up_store"]
    /\ UNCHANGED <<_pdf_text, GROQ_API_KEY, running, lastOK>>

\* a variant that fills the slot only when it is empty
UploadStoreKeepFirst(c) ==
    /\ At(c, "up_store")
    /\ _pdf_text' = IF Falsy(_pdf_text) THEN frame[c].text ELSE _pdf_text
    /\ frame' = [frame EXCEPT
            ![c].pc = "respond",
            ![c].resp = get_response_schema(Lit("processed"), PDF_PROCESSED, HTTP_200_OK)]
    /\ UNCHANGED <<GROQ_API_KEY, running, lastOK>>

\* app.py lines 50-52
UploadStore(c) ==
    /\ At(c, "up_store")
    /\ _pdf_text' = frame[c].text
    /\ frame' = [frame EXCEPT
            ![c].pc = "respond",
            ![c].resp = get_response_schema(Lit("processed"), PDF_PROCESSED, HTTP_200_OK)]
    /\ UNCHANGED <<GROQ_API_KEY, running, lastOK>>

(***************************************************************************)
(* POST /ask                                                               *)
(***************************************************************************)
AskReceive(c) ==
    /\ At(c, "idle")
    /\ \E q \in Questions :
         frame' = [frame EXCEPT ![c] = [IdleFrame EXCEPT !.pc = "ask_validate",
                                                         !.kind = "ask",
                                                         !.question = q,
                                                         !.start = _pdf_text]]
    /\ running' = c
    /\ UNCHANGED <<_pdf_text, GROQ_API_KEY, lastOK>>

\* app.py lines 57-58
AskValidate(c) ==
    /\ At(c, "ask_validate")
    /\ IF QuestionMissing(frame[c].question)
       THEN Raise(c, HTTP_400_BAD_REQUEST, QUESTION_REQUIRED)
       ELSE frame' = [frame EXCEPT ![c].pc = "ask_document"]
    /\ UNCHANGED <<_pdf_text, GROQ_API_KEY, running, lastOK>>

\* app.py lines 60-62: the first read of the slot
AskCheckDocument(c) ==
    /\ At(c, "ask_document")
    /\ IF NoDocument(_pdf_text)
       THEN Raise(c, HTTP_409_CONFLICT, PDF_NOT_UPLOADED)
       ELSE frame' = [frame EXCEPT ![c].pc = "ask_prompt"]
    /\ UNCHANGED <<_pdf_text, GROQ_API_KEY, running, lastOK>>

\* app.py lines 65-76: the second read of the slot
AskBuildPrompt(c) ==
    /\ At(c, "ask_prompt")
    /\ frame' = [frame EXCEPT ![c].pc = "ask_key",
                              ![c].prompt = BuildPrompt(_pdf_text, frame[c].question)]
    /\ UNCHANGED <<_pdf_text, GROQ_API_KEY, running, lastOK>>

\* app.py lines 79-82
AskGetKey(c) ==
    /\ At(c, "ask_key")
    /\ IF KeyMissing(GROQ_API_KEY)
       THEN Raise(c, HTTP_500_INTERNAL_SERVER_ERROR, SERVER_MISCONFIGURED)
       ELSE frame' = [frame EXCEPT ![c].pc = "ask_call", ![c].api_key = GROQ_API_KEY]
    /\ UNCHANGED <<_pdf_text, GROQ_API_KEY, running, lastOK>>

\* app.py lines 84-108
AskCallLLM(c) ==
    /\ At(c, "ask_call")
    /\ \E r \in Completions :
         IF r.raises
         THEN frame' = [frame EXCEPT
                  ![c].pc = "respond",
                  ![c].called = TRUE,
                  ![c].completion = r,
                  ![c].resp = http_exception_handler(HTTP_500_INTERNAL_SERVER_ERROR,
                                                     ANSWER_GENERATION_FAILED)]
         ELSE frame' = [frame EXCEPT
                  ![c].pc = "respond",
                  ![c].called = TRUE,
                  ![c].completion = r,
                  ![c].resp = get_response_schema(ShapeAnswer(r.content), ANSWER_GENERATED,
                                       HTTP_200_OK)]
    /\ UNCHANGED <<_pdf_text, GROQ_API_KEY, running, lastOK>>

(***************************************************************************)
(* The response leaves the handler; the coroutine ends.                    *)
(* lastOK records the text extracted by the latest upload answered 200.    *)
(***************************************************************************)
Respond(c) ==
    /\ At(c, "respond")
    /\ lastOK' = IF frame[c].kind = "upload" /\ frame[c].resp.status = HTTP_200_OK
                 THEN frame[c].text
                 ELSE lastOK
    /\ frame' = [frame EXCEPT ![c] = IdleFrame]
    /\ running' = NoClient
    /\ UNCHANGED <<_pdf_text, GROQ_API_KEY>>

UploadStep(c) ==
    \/ UploadReceive(c)
    \/ UploadCheckType(c)
    \/ UploadExtract(c)
    \/ UploadCheckSize(c)
    \/ UploadStore(c)

AskStep(c) ==
    \/ AskReceive(c)
    \/ AskValidate(c)
    \/ AskCheckDocument(c)
    \/ AskBuildPrompt(c)
    \/ AskGetKey(c)
    \/ AskCallLLM(c)

Next == \E c \in Clients : UploadStep(c) \/ AskStep(c) \/ Respond(c)

Spec == Init /\ [][Next]_vars

(***************************************************************************)
(* Vocabulary of the properties                                            *)
(***************************************************************************)
\* client c's request of the given kind has produced its response
Answered(c, kind) == frame[c].pc = "respond" /\ frame[c].kind = kind

\* the response of c is the error with this status and message
ErrorIs(c, status_code, detail) ==
    /\ frame[c].resp.status = status_code
    /\ frame[c].resp.data = Lit(detail)

\* the question is empty or consists of whitespace only
Blank(question) == question = EmptyStr \/ Strip(question) = EmptyStr

\* the filename, compared case-insensitively, ends in .pdf
PdfByName(file) == EndsWith(Lower(file.filename), DotPdf)

\* the declared content type is application/pdf
PdfByType(file) == file.content_type = APPLICATION_PDF

\* max(1, character_count / CHARS_PER_TOKEN), integer division
Estimate(text) ==
    LET q == StrLen(text) \div CHARS_PER_TOKEN
    IN  IF q < 1 THEN 1 ELSE q

\* the text between the "[DOCUMENT]\n" header of a prompt and the blank line
\* that precedes its "[QUESTION]\n" header
DocumentSection(prompt) ==
    LET q == CHOOSE i \in 1..Len(prompt) : prompt[i] = <<"[QUESTION]\n", 1>>
    IN  SubSeq(prompt, 2, q - 2)

\* c's ask has built its prompt
HasPrompt(c) == frame[c].kind = "ask" /\ frame[c].prompt # None

(***************************************************************************)
(* C1: in every reachable state the Document Store is absent or holds a    *)
(* text that is non-empty after trimming whitespace; it never holds the    *)
(* empty string.                                                           *)
(***************************************************************************)
C1_StoredTextNonBlank ==
    \/ _pdf_text = None
    \/ /\ _pdf_text # EmptyStr
       /\ Strip(_pdf_text) # EmptyStr

\* an upload that extracted only whitespace was answered 422 while a document
\* is stored
C1_Witness ==
    \E c \in Clients :
        /\ Answered(c, "upload")
        /\ frame[c].extracted
        /\ frame[c].file.file.pages # << >>
        /\ \A i \in 1..Len(frame[c].file.file.pages) :
               frame[c].file.file.pages[i] = Rep(" ", 1)
        /\ frame[c].resp.status = HTTP_422_UNPROCESSABLE_ENTITY
        /\ _pdf_text # None

(***************************************************************************)
(* C2: an upload-pdf request that ends in an error (400, 422, 413) leaves  *)
(* the Document Store exactly as it was when the request arrived, and an   *)
(* ask with a valid question arriving while a document is stored is never  *)
(* answered 409.                                                           *)
(***************************************************************************)
C2_FailedUploadKeepsStore ==
    \A c \in Clients :
        /\ ( Answered(c, "upload") /\ frame[c].resp.status # HTTP_200_OK )
              => /\ frame[c].resp.status \in { HTTP_400_BAD_REQUEST,
                                               HTTP_422_UNPROCESSABLE_ENTITY,
                                               HTTP_413_REQUEST_ENTITY_TOO_LARGE }
                 /\ _pdf_text = frame[c].start
        /\ ( Answered(c, "ask") /\ ~ Blank(frame[c].question) /\ frame[c].start # None )
              => frame[c].resp.status # HTTP_409_CONFLICT

\* a too-large upload was rejected while an earlier document is stored
C2_Witness ==
    \E c \in Clients :
        /\ Answered(c, "upload")
        /\ frame[c].resp.status = HTTP_413_REQUEST_ENTITY_TOO_LARGE
        /\ frame[c].start # None
        /\ _pdf_text = frame[c].start

(***************************************************************************)
(* C3 as stated: an ask (with a valid question) made while GROQ_API_KEY is *)
(* unset is answered 500 ServerMisconfigured whether or not a document is  *)
(* loaded.                                                                 *)
(***************************************************************************)
C3_AsStated ==
    \A c \in Clients :
        ( Answered(c, "ask") /\ ~ Blank(frame[c].question) /\ GROQ_API_KEY = None )
            => ErrorIs(c, HTTP_500_INTERNAL_SERVER_ERROR, SERVER_MISCONFIGURED)

(***************************************************************************)
(* C3 amended: an ask with a valid question made while GROQ_API_KEY is     *)
(* unset or empty is answered 500 ServerMisconfigured when a document is   *)
(* loaded and 409 NoDocumentLoaded when none is; the LLM is not called.    *)
(***************************************************************************)
C3_MisconfiguredAfterDocumentCheck ==
    \A c \in Clients :
        ( /\ Answered(c, "ask")
          /\ ~ Blank(frame[c].question)
          /\ GROQ_API_KEY \in {None, EmptyStr} )
            => /\ ~ frame[c].called
               /\ IF _pdf_text = None
                  THEN ErrorIs(c, HTTP_409_CONFLICT, PDF_NOT_UPLOADED)
                  ELSE ErrorIs(c, HTTP_500_INTERNAL_SERVER_ERROR, SERVER_MISCONFIGURED)

\* the key is set to the empty string, a document is loaded, and a valid
\* question was answered 500 ServerMisconfigured
C3_Witness ==
    \E c \in Clients :
        /\ Answered(c, "ask")
        /\ ~ Blank(frame[c].question)
        /\ GROQ_API_KEY = EmptyStr
        /\ _pdf_text # None
        /\ ErrorIs(c, HTTP_500_INTERNAL_SERVER_ERROR, SERVER_MISCONFIGURED)

(***************************************************************************)
(* C4: while no upload has been answered 200, every ask with a non-blank   *)
(* question is answered 409 NoDocumentLoaded without a call to the LLM;    *)
(* once an upload has been answered 200, no ask is answered 409.           *)
(***************************************************************************)
C4_Conflict409OnlyBeforeFirstUpload ==
    \A c \in Clients :
        ( Answered(c, "ask") /\ ~ Blank(frame[c].question) )
            => IF lastOK = None
               THEN /\ ErrorIs(c, HTTP_409_CONFLICT, PDF_NOT_UPLOADED)
                    /\ ~ frame[c].called
               ELSE frame[c].resp.status # HTTP_409_CONFLICT

\* a valid question was answered 409 although the credential is configured
C4_Witness ==
    \E c \in Clients :
        /\ Answered(c, "ask")
        /\ ~ Blank(frame[c].question)
        /\ lastOK = None
        /\ GROQ_API_KEY \notin {None, EmptyStr}
        /\ ErrorIs(c, HTTP_409_CONFLICT, PDF_NOT_UPLOADED)

(***************************************************************************)
(* C5: an ask with an empty or whitespace-only question is answered 400    *)
(* InvalidQuestion whatever the Document Store holds and whether or not    *)
(* the credential is configured, and the LLM is not called.                *)
(***************************************************************************)
C5_BlankQuestionIs400 ==
    \A c \in Clients :
        ( Answered(c, "ask") /\ Blank(frame[c].question) )
            => /\ ErrorIs(c, HTTP_400_BAD_REQUEST, QUESTION_REQUIRED)
               /\ ~ frame[c].called

\* a whitespace-only question was answered 400 with no document loaded and
\* no credential: the 400 check came before the 409 and 500 checks
C5_Witness ==
    \E c \in Clients :
        /\ Answered(c, "ask")
        /\ frame[c].question = Rep(" ", 2)
        /\ _pdf_text = None
        /\ GROQ_API_KEY = None
        /\ ErrorIs(c, HTTP_400_BAD_REQUEST, QUESTION_REQUIRED)

(***************************************************************************)
(* C6: for an upload whose extracted, trimmed text is non-empty, an        *)
(* estimate above MAX_CONTEXT_TOKENS is answered 413 DocumentTooLarge and  *)
(* the text is not stored; an estimate of at most MAX_CONTEXT_TOKENS is    *)
(* answered 200 and the text is stored.  Every stored text has an estimate *)
(* of at most MAX_CONTEXT_TOKENS.                                          *)
(***************************************************************************)
C6_SizeGate ==
    /\ \A c \in Clients :
          ( /\ Answered(c, "upload")
            /\ frame[c].extracted
            /\ frame[c].text \notin {None, EmptyStr} )
              => IF Estimate(frame[c].text) > MAX_CONTEXT_TOKENS
                 THEN /\ ErrorIs(c, HTTP_413_REQUEST_ENTITY_TOO_LARGE, PDF_TOO_LARGE)
                      /\ _pdf_text = frame[c].start
                      /\ _pdf_text # frame[c].text
                 ELSE /\ frame[c].resp.status = HTTP_200_OK
                      /\ _pdf_text = frame[c].text
    /\ _pdf_text # None => Estimate(_pdf_text) <= MAX_CONTEXT_TOKENS

\* a text of the largest accepted length (estimate exactly MAX_CONTEXT_TOKENS,
\* one character short of the next token) was stored
C6_Witness ==
    \E c \in Clients :
        /\ Answered(c, "upload")
        /\ StrLen(frame[c].text) = CHARS_PER_TOKEN * MAX_CONTEXT_TOKENS + CHARS_PER_TOKEN - 1
        /\ frame[c].resp.status = HTTP_200_OK
        /\ _pdf_text = frame[c].text

(***************************************************************************)
(* C7: upload-pdf is answered 400 InvalidFileType exactly when the         *)
(* filename does not end in .pdf (case-insensitively) and the content type *)
(* is not application/pdf; then the extractor is not invoked and the store *)
(* is not touched.                                                         *)
(***************************************************************************)
C7_TypeCheck ==
    \A c \in Clients :
        Answered(c, "upload")
            => /\ ErrorIs(c, HTTP_400_BAD_REQUEST, ONLY_PDF_SUPPORTED)
                    <=> ( ~ PdfByName(frame[c].file) /\ ~ PdfByType(frame[c].file) )
               /\ frame[c].resp.status = HTTP_400_BAD_REQUEST
                    => ( ~ frame[c].extracted /\ _pdf_text = frame[c].start )

\* an upload named in upper case, with a wrong content type, passed the type
\* check and was stored
C7_Witness ==
    \E c \in Clients :
        /\ Answered(c, "upload")
        /\ frame[c].file.filename = <<"A", ".", "P", "D", "F">>
        /\ frame[c].file.content_type = "text/plain"
        /\ frame[c].resp.status = HTTP_200_OK

(***************************************************************************)
(* C8: an ask reaches the LLM call only with a non-blank question, a       *)
(* loaded document and a configured credential, and then ends either in    *)
(* 200 with the trimmed model text, or the fallback sentence when that is  *)
(* empty (so the answer is never empty), or in 500 AnswerGenerationFailed  *)
(* when the call raises.                                                   *)
(***************************************************************************)
C8_AnswerShaping ==
    \A c \in Clients :
        /\ frame[c].pc = "ask_call"
              => /\ ~ Blank(frame[c].question)
                 /\ frame[c].start # None
                 /\ GROQ_API_KEY \notin {None, EmptyStr}
        /\ ( Answered(c, "ask") /\ frame[c].called )
              => IF frame[c].completion.raises
                 THEN ErrorIs(c, HTTP_500_INTERNAL_SERVER_ERROR, ANSWER_GENERATION_FAILED)
                 ELSE LET content == frame[c].completion.content
                          trimmed == IF content = None THEN EmptyStr ELSE Strip(content)
                      IN  /\ frame[c].resp.status = HTTP_200_OK
                          /\ frame[c].resp.data # EmptyStr
                          /\ frame[c].resp.data =
                                IF trimmed = EmptyStr THEN FALLBACK_ANSWER ELSE trimmed

\* the model returned whitespace only and the answer is the fallback sentence
C8_Witness ==
    \E c \in Clients :
        /\ Answered(c, "ask")
        /\ frame[c].called
        /\ frame[c].completion = [raises |-> FALSE, content |-> Rep(" ", 1)]
        /\ frame[c].resp.data = FALLBACK_ANSWER

(***************************************************************************)
(* C9: between requests the Document Store holds exactly the text          *)
(* extracted by the most recent upload answered 200, and the prompt of an  *)
(* ask carries that text verbatim in its [DOCUMENT] section.               *)
(***************************************************************************)
C9_StoreIsLatestUpload ==
    /\ running = NoClient => _pdf_text = lastOK
    /\ \A c \in Clients :
          HasPrompt(c)
              => /\ DocumentSection(frame[c].prompt) = lastOK
                 /\ frame[c].prompt = BuildPrompt(lastOK, frame[c].question)

\* a successful upload has replaced a different, earlier document
C9_Witness ==
    \E c \in Clients :
        /\ Answered(c, "upload")
        /\ frame[c].resp.status = HTTP_200_OK
        /\ frame[c].start # None
        /\ frame[c].start # frame[c].text
        /\ _pdf_text = frame[c].text

(***************************************************************************)
(* C10 as stated: there is no isolation between an ask in flight and the   *)
(* other clients' requests: while an ask is between its no-document check  *)
(* and the read that builds its prompt, every other client that is not     *)
(* itself asking can start or continue an upload-pdf (and so complete its  *)
(* store write before the prompt is built).                                *)
(***************************************************************************)
C10_AsStated ==
    \A c \in Clients :
        frame[c].pc = "ask_prompt"
            => \A d \in Clients \ {c} :
                   frame[d].kind # "ask" => ENABLED ( UploadStep(d) \/ Respond(d) )

(***************************************************************************)
(* C10 amended: a handler runs from its first line to its response without *)
(* another handler running in between, so an ask builds its prompt from    *)
(* the document that was stored when the ask started, the same one its     *)
(* no-document check read.                                                 *)
(***************************************************************************)
C10_AskReadsOneDocument ==
    \A c \in Clients :
        /\ frame[c].pc = "ask_prompt" => _pdf_text = frame[c].start
        /\ HasPrompt(c) => DocumentSection(frame[c].prompt) = frame[c].start

\* an ask has built its prompt from the stored document while the other
\* clients' requests wait
C10_Witness ==
    \E c \in Clients :
        /\ HasPrompt(c)
        /\ frame[c].pc = "ask_key"
        /\ frame[c].start # None
        /\ DocumentSection(frame[c].prompt) = frame[c].start
        /\ \A d \in Clients \ {c} : frame[d].pc = "idle"

=============================================================================
